---- MODULE Spec2Model ----
(***************************************************************************)
(* A model of templify's placeholder engine (src/src/templify/core.py):    *)
(* get_value_from_path, render_text, execute_jmespath_query,               *)
(* render_jmespath_template and render_data, as pure functions over Python *)
(* values (Spec), and render_data once more as a sequence of steps on      *)
(* objects with identities (WalkSpec).  Spec also holds the template       *)
(* lookup that render_jinja2 installs, the functions of utils.py and       *)
(* create_shipments of examples/ups_shipment_templify.py.                  *)
(*                                                                         *)
(* Python strings are sequences of one-character strings, so that the      *)
(* regular expressions, str.split and str.strip of the code act on         *)
(* characters.  Python values are tagged records [t, v]: two values are    *)
(* equal in Python exactly when the records are equal (the model has no    *)
(* bool/int or int/float pairs that Python would identify across types).   *)
(***************************************************************************)
EXTENDS Integers, Sequences, FiniteSets, TLC

VARIABLES fn, template, path, query, data, context, handle_missing, result, heap, stack,
          steps

vars == <<fn, template, path, query, data, context, handle_missing, result, heap, stack, steps>>

----------------------------------------------------------------------------
(* Python values *)

VStr(s) == [t |-> "str", v |-> s]
VInt(n) == [t |-> "int", v |-> n]
VBool(b) == [t |-> "bool", v |-> b]
VNone == [t |-> "none", v |-> 0]
(* datetime.datetime(year, month, day, hour, minute, second), microsecond 0 *)
VDatetime(fields) == [t |-> "datetime", v |-> fields]
VDict(f) == [t |-> "dict", v |-> f]
VList(s) == [t |-> "list", v |-> s]

EmptyDict == [k \in {} |-> VNone]

(* the outcome of a call: a returned value or a raised exception *)
Ok(x) == [kind |-> "ok", val |-> x]
Raise(type, msg) == [kind |-> "raise", val |-> [t |-> "exc", v |-> <<type, msg>>]]
Pending == [kind |-> "pending", val |-> VNone]

(* an optional argument that the caller does not pass *)
Omitted == "omitted"

----------------------------------------------------------------------------
(* Strings of the model, as character sequences *)

LBrace == "{"
RBrace == "}"
Dot == "."
Pipe == "|"
Space == " "

s_a == <<"a">>
s_b == <<"b">>
s_x == <<"x">>
s_y == <<"y">>
s_empty == <<>>
s_a_b == <<"a", ".", "b">>
s_Al == <<"A", "l">>
s_Bo == <<"B", "o">>
s_ph_a == <<"{", "a", "}">>
s_ph_b == <<"{", "b", "}">>
s_ph_a_b == <<"{", "a", ".", "b", "}">>
s_dph_a == <<"{", "{", " ", "a", " ", "}", "}">>
s_dph_b == <<"{", "{", " ", "b", " ", "}", "}">>
s_dph_a_b == <<"{", "{", " ", "a", ".", "b", " ", "}", "}">>
s_None == <<"N", "o", "n", "e">>
s_True == <<"T", "r", "u", "e">>
s_False == <<"F", "a", "l", "s", "e">>

RECURSIVE Concat(_)
(* the concatenation of a sequence of strings *)
Concat(ss) == IF ss = <<>> THEN <<>> ELSE Head(ss) \o Concat(Tail(ss))

RECURSIVE JoinWith(_, _)
(* sep.join(ss) *)
JoinWith(sep, ss) ==
  IF ss = <<>> THEN <<>>
  ELSE IF Len(ss) = 1 THEN Head(ss)
  ELSE Head(ss) \o sep \o JoinWith(sep, Tail(ss))

----------------------------------------------------------------------------
(* str() and repr() of Python, for the value types of the model *)

DigitChar(d) == <<"0", "1", "2", "3", "4", "5", "6", "7", "8", "9">>[d + 1]

RECURSIVE IntStr(_)
IntStr(n) == IF n < 10 THEN <<DigitChar(n)>> ELSE IntStr(n \div 10) \o <<DigitChar(n % 10)>>

RECURSIVE ZeroPad(_, _)
(* '%0*d' % (width, n) *)
ZeroPad(n, width) ==
  IF Len(IntStr(n)) >= width THEN IntStr(n) ELSE <<"0">> \o ZeroPad(n, width - 1)

(* datetime.isoformat(sep): str(dt) is dt.isoformat(sep=" ") *)
DatetimeText(f, sep) ==
  ZeroPad(f[1], 4) \o <<"-">> \o ZeroPad(f[2], 2) \o <<"-">> \o ZeroPad(f[3], 2) \o sep
  \o ZeroPad(f[4], 2) \o <<":">> \o ZeroPad(f[5], 2) \o <<":">> \o ZeroPad(f[6], 2)

s_datetime_open ==
  <<"d", "a", "t", "e", "t", "i", "m", "e", ".", "d", "a", "t", "e", "t", "i", "m", "e", "(">>

(* repr(dt): the fields, without the second when it is 0 *)
DatetimeRepr(f) ==
  LET shown == IF f[6] = 0 THEN SubSeq(f, 1, 5) ELSE f IN
  s_datetime_open
  \o JoinWith(<<",", " ">>, [k \in 1..Len(shown) |-> IntStr(shown[k])])
  \o <<")">>

(* the keys of the shipment example (examples/ups_shipment_templify.py) *)
s_PackageID == <<"P", "a", "c", "k", "a", "g", "e", "I", "D">>
s_package_id == <<"p", "a", "c", "k", "a", "g", "e", "_", "i", "d">>
s_customer_context ==
  <<"c", "u", "s", "t", "o", "m", "e", "r", "_", "c", "o", "n", "t", "e", "x", "t">>
s_packages == <<"p", "a", "c", "k", "a", "g", "e", "s">>
s_CustomerContext ==
  <<"C", "u", "s", "t", "o", "m", "e", "r", "C", "o", "n", "t", "e", "x", "t">>
s_Package == <<"P", "a", "c", "k", "a", "g", "e">>

(* The keys of the model's mappings, in their insertion order: a mapping   *)
(* of the model is a function, and iterates in this order.                 *)
KeyOrder ==
  <<s_a, s_b, s_empty, s_x, s_y, s_PackageID, s_package_id, s_CustomerContext, s_Package,
    s_customer_context, s_packages>>

KeysOf(d) == SelectSeq(KeyOrder, LAMBDA k : k \in DOMAIN d)

RECURSIVE PyRepr(_)
RECURSIVE ReprItems(_)
RECURSIVE ReprPairs(_, _)
ReprItems(xs) == IF xs = <<>> THEN <<>> ELSE <<PyRepr(Head(xs))>> \o ReprItems(Tail(xs))
ReprPairs(d, ks) ==
  IF ks = <<>> THEN <<>>
  ELSE <<PyRepr(VStr(Head(ks))) \o <<":", " ">> \o PyRepr(d[Head(ks)])>> \o ReprPairs(d, Tail(ks))
(* repr(x); the strings of the model hold no quote and no backslash *)
PyRepr(x) ==
  CASE x.t = "str" -> <<"'">> \o x.v \o <<"'">>
    [] x.t = "int" -> IntStr(x.v)
    [] x.t = "bool" -> IF x.v THEN s_True ELSE s_False
    [] x.t = "none" -> s_None
    [] x.t = "datetime" -> DatetimeRepr(x.v)
    [] x.t = "list" -> <<"[">> \o JoinWith(<<",", " ">>, ReprItems(x.v)) \o <<"]">>
    [] x.t = "dict" -> <<"{">> \o JoinWith(<<",", " ">>, ReprPairs(x.v, KeysOf(x.v))) \o <<"}">>

(* str(x) *)
PyStr(x) ==
  IF x.t = "str" THEN x.v
  ELSE IF x.t = "datetime" THEN DatetimeText(x.v, <<" ">>)
  ELSE PyRepr(x)

----------------------------------------------------------------------------
(* str.split(sep) for a one-character separator *)

RECURSIVE SplitFrom(_, _, _, _)
SplitFrom(s, sep, i, cur) ==
  IF i > Len(s) THEN <<cur>>
  ELSE IF s[i] = sep THEN <<cur>> \o SplitFrom(s, sep, i + 1, <<>>)
  ELSE SplitFrom(s, sep, i + 1, Append(cur, s[i]))

Split(s, sep) == SplitFrom(s, sep, 1, <<>>)

----------------------------------------------------------------------------
(* get_value_from_path (core.py 23-48) *)

RECURSIVE WalkPath(_, _, _, _)
(* the for loop: `current` before the i-th key of `keys` *)
WalkPath(current, keys, i, p) ==
  IF i > Len(keys) THEN current
  ELSE IF current.t # "dict" THEN VStr(p)
  ELSE WalkPath(IF keys[i] \in DOMAIN current.v THEN current.v[keys[i]] ELSE VStr(p),
                keys, i + 1, p)

(* get_value_from_path without the split: the path looked up as one key *)
get_value_from_path_unsplit(obj, p) ==
  IF obj.t = "dict" /\ p \in DOMAIN obj.v THEN obj.v[p] ELSE VStr(p)

get_value_from_path(obj, p) == WalkPath(obj, Split(p, Dot), 1, p)

----------------------------------------------------------------------------
(* re.sub(pattern, repl, string): the string is cut, left to right, into   *)
(* the non-overlapping matches of the pattern and the characters between   *)
(* them; repl is called once per match, in order.  A token is a literal    *)
(* character or a match with its group 1.                                  *)

Lit(c) == [lit |-> TRUE, text |-> <<c>>]
Match(whole, group1) == [lit |-> FALSE, text |-> whole, body |-> group1]

RECURSIVE FirstRBrace(_, _)
(* the least index >= k of a '}' in s, or 0 *)
FirstRBrace(s, k) ==
  IF k > Len(s) THEN 0
  ELSE IF s[k] = RBrace THEN k
  ELSE FirstRBrace(s, k + 1)

(* r'\{([^}]+)\}' (core.py 81) tried at index i: the index of the closing  *)
(* brace, or 0.  [^}]+ is greedy and holds no '}', so it runs to the first *)
(* '}' after at least one other character.                                 *)
SingleBraceEnd(s, i) ==
  IF s[i] = LBrace /\ i + 1 <= Len(s) /\ s[i + 1] # RBrace
  THEN FirstRBrace(s, i + 2)
  ELSE 0

RECURSIVE SingleBraceTokens(_, _)
SingleBraceTokens(s, i) ==
  IF i > Len(s) THEN <<>>
  ELSE LET j == SingleBraceEnd(s, i) IN
       IF j # 0
       THEN <<Match(SubSeq(s, i, j), SubSeq(s, i + 1, j - 1))>> \o SingleBraceTokens(s, j + 1)
       ELSE <<Lit(s[i])>> \o SingleBraceTokens(s, i + 1)

(* r'\{\{([^}]+)\}\}' (core.py 172) tried at index i: the index of the     *)
(* last closing brace, or 0.                                               *)
DoubleBraceEnd(s, i) ==
  IF /\ s[i] = LBrace
     /\ i + 2 <= Len(s)
     /\ s[i + 1] = LBrace
     /\ s[i + 2] # RBrace
  THEN LET j == FirstRBrace(s, i + 3) IN
       IF j # 0 /\ j + 1 <= Len(s) /\ s[j + 1] = RBrace THEN j + 1 ELSE 0
  ELSE 0

RECURSIVE DoubleBraceTokens(_, _)
DoubleBraceTokens(s, i) ==
  IF i > Len(s) THEN <<>>
  ELSE LET j == DoubleBraceEnd(s, i) IN
       IF j # 0
       THEN <<Match(SubSeq(s, i, j), SubSeq(s, i + 2, j - 2))>> \o DoubleBraceTokens(s, j + 1)
       ELSE <<Lit(s[i])>> \o DoubleBraceTokens(s, i + 1)

----------------------------------------------------------------------------
(* render_text (core.py 51-82) *)

(* replace_placeholder (core.py 76-79), on group 1 of a match *)
replace_placeholder(placeholder, ctx) ==
  LET value == get_value_from_path(ctx, placeholder) IN
  IF value # VStr(placeholder) THEN PyStr(value)
  ELSE <<LBrace>> \o placeholder \o <<RBrace>>

(* render_text as it would be if only the first match were replaced *)
render_text_first_only(tmpl, ctx) ==
  LET toks == SingleBraceTokens(tmpl, 1)
      first == CHOOSE k \in 1..(Len(toks) + 1) :
                 /\ k <= Len(toks) => ~toks[k].lit
                 /\ \A j \in 1..(k - 1) : toks[j].lit
  IN Concat([k \in 1..Len(toks) |->
               IF k = first THEN replace_placeholder(toks[k].body, ctx) ELSE toks[k].text])

(* render_text as it would be if the output were scanned once more *)
render_text_rescanned(tmpl, ctx) ==
  LET toks == SingleBraceTokens(tmpl, 1)
      once == Concat([k \in 1..Len(toks) |->
                IF toks[k].lit THEN toks[k].text ELSE replace_placeholder(toks[k].body, ctx)])
      more == SingleBraceTokens(once, 1)
  IN  Concat([k \in 1..Len(more) |->
                IF more[k].lit THEN more[k].text ELSE replace_placeholder(more[k].body, ctx)])

render_text(tmpl, ctx) ==
  LET toks == SingleBraceTokens(tmpl, 1) IN
  Concat([k \in 1..Len(toks) |->
            IF toks[k].lit THEN toks[k].text ELSE replace_placeholder(toks[k].body, ctx)])

(* A call render_text(template, context[, handle_missing=...]): the        *)
(* function takes two parameters (core.py 51), so a call that passes       *)
(* handle_missing, as tests/test_jinja2.py 169-173 does, is rejected with  *)
(* TypeError before the body runs.                                         *)
RenderTextCall(tmpl, ctx, hm) ==
  IF hm # Omitted
  THEN Raise("TypeError", "unexpected keyword argument")
  ELSE Ok(VStr(render_text(tmpl, ctx)))

----------------------------------------------------------------------------
(* str.strip(), str.startswith(), `in` on strings, and slices *)

IsSpace(c) == c = Space

RECURSIVE LStrip(_)
LStrip(s) == IF s # <<>> /\ IsSpace(Head(s)) THEN LStrip(Tail(s)) ELSE s

RECURSIVE RStrip(_)
RStrip(s) == IF s # <<>> /\ IsSpace(s[Len(s)]) THEN RStrip(SubSeq(s, 1, Len(s) - 1)) ELSE s

Strip(s) == RStrip(LStrip(s))

StartsWith(s, prefix) == Len(s) >= Len(prefix) /\ SubSeq(s, 1, Len(prefix)) = prefix

(* sub in s *)
Contains(s, sub) ==
  \E i \in 1..(Len(s) - Len(sub) + 1) : SubSeq(s, i, i + Len(sub) - 1) = sub

(* s[start:-cut], for 0 <= start and 0 < cut *)
SliceFromTo(s, start, cut) ==
  IF start + 1 > Len(s) - cut THEN <<>> ELSE SubSeq(s, start + 1, Len(s) - cut)

----------------------------------------------------------------------------
(* jmespath.search(query, data), the third-party query language, for the   *)
(* fragment the model's queries stay in: the empty expression and an       *)
(* unclosed quoted identifier are rejected by its lexer; "@" is the        *)
(* current node; a dotted chain of unquoted identifiers descends mapping   *)
(* fields and yields None on an absent field or a non-mapping.  Any other  *)
(* text is rejected.                                                       *)

Letters == { "a", "b", "c", "x", "y" }

IsIdentifier(s) == s # <<>> /\ \A i \in 1..Len(s) : s[i] \in Letters

RECURSIVE JmespathFields(_, _)
JmespathFields(current, names) ==
  IF names = <<>> THEN current
  ELSE IF current.t = "dict" /\ Head(names) \in DOMAIN current.v
       THEN JmespathFields(current.v[Head(names)], Tail(names))
       ELSE VNone

JmespathSearch(expression, d) ==
  LET q == Strip(expression)
      names == Split(q, Dot)
  IN  IF q = <<"@">> THEN Ok(d)
      ELSE IF \A i \in 1..Len(names) : IsIdentifier(names[i])
           THEN Ok(JmespathFields(d, names))
           ELSE Raise("JMESPathError", "rejected")

(* execute_jmespath_query without its check of a None result *)
execute_jmespath_query_returns_none(q, d) ==
  LET r == JmespathSearch(q, d) IN
  IF r.kind = "raise" THEN Raise("ValueError", "Invalid JMESPath query") ELSE r

(* execute_jmespath_query (core.py 85-105) *)
execute_jmespath_query(q, d) ==
  LET r == JmespathSearch(q, d) IN
  IF r.kind = "raise" THEN Raise("ValueError", "Invalid JMESPath query")
  ELSE IF r.val = VNone THEN Raise("ValueError", "JMESPath query returned None")
  ELSE r

----------------------------------------------------------------------------
(* render_jmespath_template (core.py 108-173) *)

s_jmespath_open == <<"j", "m", "e", "s", "p", "a", "t", "h", "(">>

(* replace_jmespath accepting any number of parts after the first *)
replace_jmespath_any_parts(body, ctx) ==
  LET expr == Strip(body)
      parts == Split(expr, Pipe)
  IN  IF ~Contains(expr, <<Pipe>>)
      THEN Ok(VStr(PyStr(get_value_from_path(ctx, expr))))
      ELSE IF Len(parts) < 2 \/ ~StartsWith(Strip(parts[2]), s_jmespath_open)
      THEN Raise("ValueError", "Invalid JMESPath expression")
      ELSE LET data_path == Strip(parts[1])
               jmespath_expr == SliceFromTo(Strip(parts[2]), 9, 2)
               d == get_value_from_path(ctx, data_path)
           IN  IF d = VStr(data_path)
               THEN Raise("ValueError", "Data not found")
               ELSE LET r == execute_jmespath_query(jmespath_expr, d) IN
                    IF r.kind = "raise" THEN r ELSE Ok(VStr(PyStr(r.val)))

(* replace_jmespath (core.py 147-170), on group 1 of a match: the text to  *)
(* substitute, or the exception raised                                     *)
replace_jmespath(body, ctx) ==
  LET expr == Strip(body)
      parts == Split(expr, Pipe)
  IN  IF ~Contains(expr, <<Pipe>>)
      THEN Ok(VStr(PyStr(get_value_from_path(ctx, expr))))
      ELSE IF Len(parts) # 2 \/ ~StartsWith(Strip(parts[2]), s_jmespath_open)
      THEN Raise("ValueError", "Invalid JMESPath expression")
      ELSE LET data_path == Strip(parts[1])
               jmespath_expr == SliceFromTo(Strip(parts[2]), 9, 2)
               d == get_value_from_path(ctx, data_path)
           IN  IF d = VStr(data_path)
               THEN Raise("ValueError", "Data not found")
               ELSE LET r == execute_jmespath_query(jmespath_expr, d) IN
                    IF r.kind = "raise" THEN r ELSE Ok(VStr(PyStr(r.val)))

(* the outcomes of a sequence of calls made in order: the first exception  *)
(* raised, or 0 when none raises                                           *)
FirstRaise(outs) ==
  IF \E k \in 1..Len(outs) : outs[k].kind = "raise"
  THEN LET k == CHOOSE k \in 1..Len(outs) :
                  /\ outs[k].kind = "raise"
                  /\ \A m \in 1..(k - 1) : outs[m].kind # "raise"
       IN  k
  ELSE 0

render_jmespath_template(tmpl, ctx) ==
  LET toks == DoubleBraceTokens(tmpl, 1)
      outs == [k \in 1..Len(toks) |->
                 IF toks[k].lit THEN Ok(VStr(toks[k].text))
                 ELSE replace_jmespath(toks[k].body, ctx)]
      bad == FirstRaise(outs)
  IN  IF bad # 0 THEN outs[bad]
      ELSE Ok(VStr(Concat([k \in 1..Len(outs) |-> outs[k].val.v])))

----------------------------------------------------------------------------
(* render_data (core.py 259-324) *)

RECURSIVE render_data_str_scalars(_, _)
(* render_data with its last line returning str(data) *)
render_data_str_scalars(d, ctx) ==
  CASE d.t = "dict" ->
         LET ks == KeysOf(d.v)
             outs == [k \in 1..Len(ks) |-> render_data_str_scalars(d.v[ks[k]], ctx)]
             bad == FirstRaise(outs)
         IN  IF bad # 0 THEN outs[bad]
             ELSE Ok(VDict([key \in DOMAIN d.v |->
                              outs[CHOOSE k \in 1..Len(ks) : ks[k] = key].val]))
    [] d.t = "list" ->
         LET outs == [k \in 1..Len(d.v) |-> render_data_str_scalars(d.v[k], ctx)]
             bad == FirstRaise(outs)
         IN  IF bad # 0 THEN outs[bad]
             ELSE Ok(VList([k \in 1..Len(d.v) |-> outs[k].val]))
    [] d.t = "str" ->
         IF Contains(d.v, <<LBrace, LBrace>>) /\ Contains(d.v, <<RBrace, RBrace>>)
         THEN render_jmespath_template(d.v, ctx)
         ELSE Ok(VStr(render_text(d.v, ctx)))
    [] OTHER -> Ok(VStr(PyStr(d)))

RECURSIVE render_data_keeps_going(_, _)
(* render_data with the exceptions of its recursive calls caught and left  *)
(* in the tree in place of the elements that raised them                   *)
render_data_keeps_going(d, ctx) ==
  CASE d.t = "dict" ->
         Ok(VDict([key \in DOMAIN d.v |-> render_data_keeps_going(d.v[key], ctx).val]))
    [] d.t = "list" ->
         Ok(VList([k \in 1..Len(d.v) |-> render_data_keeps_going(d.v[k], ctx).val]))
    [] d.t = "str" ->
         IF Contains(d.v, <<LBrace, LBrace>>) /\ Contains(d.v, <<RBrace, RBrace>>)
         THEN render_jmespath_template(d.v, ctx)
         ELSE Ok(VStr(render_text(d.v, ctx)))
    [] OTHER -> Ok(d)

RECURSIVE render_data_drops_none(_, _)
(* render_data with its list comprehension skipping the elements that are  *)
(* None                                                                    *)
render_data_drops_none(d, ctx) ==
  CASE d.t = "dict" ->
         LET ks == KeysOf(d.v)
             outs == [k \in 1..Len(ks) |-> render_data_drops_none(d.v[ks[k]], ctx)]
             bad == FirstRaise(outs)
         IN  IF bad # 0 THEN outs[bad]
             ELSE Ok(VDict([key \in DOMAIN d.v |->
                              outs[CHOOSE k \in 1..Len(ks) : ks[k] = key].val]))
    [] d.t = "list" ->
         LET kept == SelectSeq(d.v, LAMBDA x : x # VNone)
             outs == [k \in 1..Len(kept) |-> render_data_drops_none(kept[k], ctx)]
             bad == FirstRaise(outs)
         IN  IF bad # 0 THEN outs[bad]
             ELSE Ok(VList([k \in 1..Len(kept) |-> outs[k].val]))
    [] d.t = "str" ->
         IF Contains(d.v, <<LBrace, LBrace>>) /\ Contains(d.v, <<RBrace, RBrace>>)
         THEN render_jmespath_template(d.v, ctx)
         ELSE Ok(VStr(render_text(d.v, ctx)))
    [] OTHER -> Ok(d)

RECURSIVE render_data_isoformat_leaves(_, _)
(* render_data with a branch that returns data.isoformat() for a datetime *)
render_data_isoformat_leaves(d, ctx) ==
  CASE d.t = "dict" ->
         LET ks == KeysOf(d.v)
             outs == [k \in 1..Len(ks) |-> render_data_isoformat_leaves(d.v[ks[k]], ctx)]
             bad == FirstRaise(outs)
         IN  IF bad # 0 THEN outs[bad]
             ELSE Ok(VDict([key \in DOMAIN d.v |->
                              outs[CHOOSE k \in 1..Len(ks) : ks[k] = key].val]))
    [] d.t = "list" ->
         LET outs == [k \in 1..Len(d.v) |-> render_data_isoformat_leaves(d.v[k], ctx)]
             bad == FirstRaise(outs)
         IN  IF bad # 0 THEN outs[bad]
             ELSE Ok(VList([k \in 1..Len(d.v) |-> outs[k].val]))
    [] d.t = "str" ->
         IF Contains(d.v, <<LBrace, LBrace>>) /\ Contains(d.v, <<RBrace, RBrace>>)
         THEN render_jmespath_template(d.v, ctx)
         ELSE Ok(VStr(render_text(d.v, ctx)))
    [] d.t = "datetime" -> Ok(VStr(DatetimeText(d.v, <<"T">>)))
    [] OTHER -> Ok(d)

RECURSIVE render_data(_, _)
render_data(d, ctx) ==
  CASE d.t = "dict" ->
         LET ks == KeysOf(d.v)
             outs == [k \in 1..Len(ks) |-> render_data(d.v[ks[k]], ctx)]
             bad == FirstRaise(outs)
         IN  IF bad # 0 THEN outs[bad]
             ELSE Ok(VDict([key \in DOMAIN d.v |->
                              outs[CHOOSE k \in 1..Len(ks) : ks[k] = key].val]))
    [] d.t = "list" ->
         LET outs == [k \in 1..Len(d.v) |-> render_data(d.v[k], ctx)]
             bad == FirstRaise(outs)
         IN  IF bad # 0 THEN outs[bad]
             ELSE Ok(VList([k \in 1..Len(d.v) |-> outs[k].val]))
    [] d.t = "str" ->
         IF Contains(d.v, <<LBrace, LBrace>>) /\ Contains(d.v, <<RBrace, RBrace>>)
         THEN render_jmespath_template(d.v, ctx)
         ELSE Ok(VStr(render_text(d.v, ctx)))
    [] OTHER -> Ok(d)

----------------------------------------------------------------------------
(* The contexts of the model: key "a" absent or bound to one of AValues,   *)
(* key "b" absent or bound to one of BValues.  They cover falsy values,    *)
(* None, a string equal to its own path (at depth 1 and 2), a value that   *)
(* holds placeholder syntax, sequences, and mappings nested three deep.    *)

(* datetime(2024, 3, 15, 14, 30) of tests/test_core.py 91 *)
test_date == VDatetime(<<2024, 3, 15, 14, 30, 0>>)

AValues ==
  { VInt(0), VNone, VBool(FALSE), VStr(s_empty), VStr(s_a), VStr(s_Al), VStr(s_ph_b),
    VStr(s_dph_b),
    test_date,
    VList(<<VInt(1), VStr(s_b)>>),
    VDict(s_b :> VInt(5)),
    VDict(s_b :> VStr(s_a_b)),
    VDict(s_b :> VNone),
    VDict(s_b :> VDict(s_a :> VInt(7))),
    VDict(s_empty :> VStr(s_x)),
    VDict((s_a :> VInt(1)) @@ (s_b :> VList(<<VInt(2)>>))) }

BValues == { VInt(5), VStr(s_b), VDict(s_a :> VStr(s_Bo)) }

Contexts ==
  { VDict(EmptyDict) }
  \cup { VDict(s_a :> x) : x \in AValues }
  \cup { VDict(s_b :> y) : y \in BValues }
  \cup { VDict((s_a :> x) @@ (s_b :> y)) : x \in AValues, y \in BValues }

(* The paths of the model: up to MaxSegs segments joined by dots; the      *)
(* empty segment gives the paths "", "a.", ".b", "a..b".                   *)
MaxSegs == 3

Segments == { s_a, s_b, s_empty }

SegLists == UNION { [1..n -> Segments] : n \in 1..MaxSegs }

Paths == { JoinWith(<<Dot>>, segs) : segs \in SegLists }

(* The templates of the model: up to MaxParts pieces, concatenated.  The   *)
(* pieces are single characters of the placeholder syntax and whole        *)
(* placeholders, so that their concatenations hold placeholders beside     *)
(* text, beside each other and inside stray braces.                        *)
MaxParts == 2

Pieces ==
  { <<LBrace>>, <<RBrace>>, s_a, <<"H", "i", " ">>, <<LBrace, "a">>,
    s_ph_a, s_ph_b, s_ph_a_b, <<"{", "c", "}">>, s_dph_a, s_dph_b }

Templates == { Concat(ps) : ps \in UNION { [1..n -> Pieces] : n \in 0..MaxParts } }

(* the values of handle_missing that tests/test_jinja2.py passes *)
Policies == { "KEEP", "DEFAULT", "RAISE" }

(* The template trees of the model: the leaves are the strings LeafTexts   *)
(* and four non-string scalars; a tree of depth d+1 wraps a tree of depth  *)
(* d in a mapping or a sequence, alone or beside a sibling.                *)
MaxTreeDepth == 2

s_q_a_b == <<"{", "{", " ", "a", " ", "|", " ", "j", "m", "e", "s", "p", "a", "t", "h",
             "(", "\"", "b", "\"", ")", " ", "}", "}">>
s_q_a_b_cut == <<"{", "{", " ", "a", " ", "|", " ", "j", "m", "e", "s", "p", "a", "t", "h",
                 "(", "b", "\"", ")", " ", "}", "}">>
s_q_c_b_cut == <<"{", "{", " ", "c", " ", "|", " ", "j", "m", "e", "s", "p", "a", "t", "h",
                 "(", "b", "\"", ")", " ", "}", "}">>
s_q_a_upper == <<"{", "{", " ", "a", " ", "|", " ", "u", "p", "p", "e", "r", " ", "}", "}">>
s_q_a_b_cut_x == <<"{", "{", " ", "a", " ", "|", " ", "j", "m", "e", "s", "p", "a", "t", "h",
                   "(", "b", "\"", ")", " ", "|", " ", "x", " ", "}", "}">>
s_q_a_bdot == <<"{", "{", " ", "a", " ", "|", " ", "j", "m", "e", "s", "p", "a", "t", "h",
                "(", "\"", "b", ".", "\"", ")", " ", "}", "}">>

LeafTexts ==
  { s_empty, s_x, s_Al, <<LBrace>>, <<LBrace, RBrace>>, <<RBrace, RBrace, LBrace, LBrace>>,
    <<LBrace, LBrace, RBrace, RBrace>>, <<"a", "}", " ", "{">>,
    s_ph_a, s_ph_b, s_ph_a_b, <<"{", "c", "}">>, <<"H", "i", " ">> \o s_ph_b,
    s_dph_a, s_dph_b, s_dph_a_b, <<"{", "{", " ", "c", " ", "}", "}">>,
    <<"H", "i", " ">> \o s_dph_a \o <<",", " ">> \o s_dph_b,
    <<"}", "}", " ">> \o s_ph_a \o <<" ", "{", "{">>,
    s_q_a_b, s_q_a_b_cut, s_q_c_b_cut, s_q_a_upper, s_q_a_bdot, s_q_a_b_cut_x }

(* The query expressions of the model, for calls of the evaluator itself:  *)
(* the empty expression, the current node, fields and chains of fields,    *)
(* surrounding blanks, an unclosed quote and a dangling dot.               *)
Queries ==
  { s_empty, <<"@">>, s_b, s_a_b, <<"b", ".", "a">>, <<" ", "b", " ">>,
    <<"\"", "b">>, <<"b", ".">> }

Leaves == { VStr(tx) : tx \in LeafTexts } \cup { VInt(3), VBool(TRUE), VNone, test_date }

RECURSIVE Trees(_)
Trees(d) ==
  IF d = 0 THEN Leaves
  ELSE LET sub == Trees(d - 1) IN
       sub
       \cup { VDict(s_x :> tr) : tr \in sub }
       \cup { VDict((s_x :> tr) @@ (s_y :> VStr(s_ph_b))) : tr \in sub }
       \cup { VList(<<tr>>) : tr \in sub }
       \cup { VList(<<VInt(1), tr>>) : tr \in sub }

----------------------------------------------------------------------------
(* The calls *)

NoText == <<>>

(* a call that is made in one step holds no objects and has no frames *)
NoObjects == [a \in {} |-> VNone]

InitPath ==
  /\ fn = "get_value_from_path"
  /\ path \in Paths
  /\ context \in Contexts
  /\ template = NoText
  /\ query = NoText
  /\ data = VNone
  /\ handle_missing = Omitted
  /\ result = Pending
  /\ heap = NoObjects
  /\ stack = <<>>
  /\ steps = 0

(* get_value_from_path(context, path) is called and returns *)
GetValueFromPath ==
  /\ fn = "get_value_from_path"
  /\ result = Pending
  /\ result' = Ok(get_value_from_path(context, path))
  /\ UNCHANGED <<fn, template, path, query, data, context, handle_missing, heap, stack, steps>>

InitText ==
  /\ fn = "render_text"
  /\ template \in Templates
  /\ context \in Contexts
  /\ handle_missing \in {Omitted} \cup Policies
  /\ path = NoText
  /\ query = NoText
  /\ data = VNone
  /\ result = Pending
  /\ heap = NoObjects
  /\ stack = <<>>
  /\ steps = 0

(* render_text(template, context) or                                       *)
(* render_text(template, context, handle_missing=...) is called            *)
RenderText ==
  /\ fn = "render_text"
  /\ result = Pending
  /\ result' = RenderTextCall(template, context, handle_missing)
  /\ UNCHANGED <<fn, template, path, query, data, context, handle_missing, heap, stack, steps>>

InitData ==
  /\ fn = "render_data"
  /\ data \in Trees(MaxTreeDepth)
  /\ context \in Contexts
  /\ template = NoText
  /\ path = NoText
  /\ query = NoText
  /\ handle_missing = Omitted
  /\ result = Pending
  /\ heap = NoObjects
  /\ stack = <<>>
  /\ steps = 0

(* render_data(data, context) is called *)
RenderData ==
  /\ fn = "render_data"
  /\ result = Pending
  /\ result' = render_data(data, context)
  /\ UNCHANGED <<fn, template, path, query, data, context, handle_missing, heap, stack, steps>>

InitQuery ==
  /\ fn = "execute_jmespath_query"
  /\ query \in Queries
  /\ data \in AValues
  /\ context = VDict(EmptyDict)
  /\ template = NoText
  /\ path = NoText
  /\ handle_missing = Omitted
  /\ result = Pending
  /\ heap = NoObjects
  /\ stack = <<>>
  /\ steps = 0

(* execute_jmespath_query(query, data) is called *)
ExecuteJmespathQuery ==
  /\ fn = "execute_jmespath_query"
  /\ result = Pending
  /\ result' = execute_jmespath_query(query, data)
  /\ UNCHANGED <<fn, template, path, query, data, context, handle_missing, heap, stack, steps>>

----------------------------------------------------------------------------
(* render_jinja2 (core.py 176-256): the environment it builds from the     *)
(* templates argument.  A dict[str, str] is here the sequence of its items *)
(* in insertion order, each item a pair <<name, content>>, names distinct. *)

VItems(items) == [t |-> "items", v |-> items]

(* jinja2.Template(source) *)
Template(source) == [t |-> "template", v |-> source]

TemplateNames == { s_a, s_b, s_x }
TemplateSources == { <<"H", "i", " ">>, s_Al, s_Bo }
MaxTemplates == 2

TemplateDicts ==
  { VItems(items) :
      items \in { its \in UNION { [1..n -> TemplateNames \X TemplateSources] :
                                    n \in 0..MaxTemplates } :
                    \A i, j \in 1..Len(its) : its[i][1] = its[j][1] => i = j } }

(* n in templates *)
InTemplates(n, templates) == \E k \in 1..Len(templates.v) : templates.v[k][1] = n

(* The loop of core.py 243-244 binds env.get_template, once per item, to a *)
(* lambda that reads the loop variable content and the argument templates  *)
(* when it is called; after the loop content is the content of the last    *)
(* item.  Without templates (None or empty) env.get_template stays the     *)
(* method of the Environment, which has no loader (core.py 233).           *)
env_get_template(templates, n) ==
  IF templates.t = "none" \/ templates.v = <<>>
  THEN Raise("TypeError", "no loader for this environment specified")
  ELSE LET content == templates.v[Len(templates.v)][2] IN
       IF InTemplates(n, templates) THEN Ok(Template(content)) ELSE Ok(VNone)

(* render_jinja2(template, context, templates=data) is called and the      *)
(* environment it has built is asked for the template named path           *)
InitJinja2 ==
  /\ fn = "render_jinja2"
  /\ template = s_Al
  /\ context = VDict(EmptyDict)
  /\ data \in TemplateDicts \cup { VNone }
  /\ path \in TemplateNames \cup { s_y }
  /\ query = NoText
  /\ handle_missing = Omitted
  /\ result = Pending
  /\ heap = NoObjects
  /\ stack = <<>>
  /\ steps = 0

RenderJinja2 ==
  /\ fn = "render_jinja2"
  /\ result = Pending
  /\ result' = env_get_template(data, path)
  /\ UNCHANGED <<fn, template, path, query, data, context, handle_missing, heap, stack, steps>>

----------------------------------------------------------------------------
(* src/src/templify/utils.py *)

RECURSIVE utils_WalkPath(_, _, _, _)
(* the for loop of utils.py 19-22: `current` before the i-th key *)
utils_WalkPath(current, keys, i, p) ==
  IF i > Len(keys) THEN current
  ELSE IF current.t # "dict" THEN VStr(p)
  ELSE IF keys[i] \in DOMAIN current.v
  THEN utils_WalkPath(current.v[keys[i]], keys, i + 1, p)
  ELSE utils_WalkPath(VStr(p), keys, i + 1, p)

RECURSIVE utils_WalkPathNone(_, _, _, _)
utils_WalkPathNone(current, keys, i, p) ==
  IF i > Len(keys) THEN current
  ELSE IF current.t # "dict" THEN VNone
  ELSE IF keys[i] \in DOMAIN current.v
  THEN utils_WalkPathNone(current.v[keys[i]], keys, i + 1, p)
  ELSE VNone

(* the resolver of utils.py as it would be if it gave None for a missing path *)
utils_get_value_from_path_none(obj, p) == utils_WalkPathNone(obj, Split(p, Dot), 1, p)

utils_get_value_from_path(obj, p) == utils_WalkPath(obj, Split(p, Dot), 1, p)

EndsWith(s, suffix) ==
  Len(s) >= Len(suffix) /\ SubSeq(s, Len(s) - Len(suffix) + 1, Len(s)) = suffix

(* is_placeholder testing the opening brace only *)
is_placeholder_open_only(value) ==
  value.t = "str" /\ StartsWith(value.v, <<LBrace>>)

is_placeholder(value) ==
  /\ value.t = "str"
  /\ \/ StartsWith(value.v, <<LBrace>>) /\ EndsWith(value.v, <<RBrace>>)
     \/ StartsWith(value.v, <<LBrace, LBrace>>) /\ EndsWith(value.v, <<RBrace, RBrace>>)

RECURSIVE LStripChars(_, _)
LStripChars(s, chars) ==
  IF s # <<>> /\ Head(s) \in chars THEN LStripChars(Tail(s), chars) ELSE s

RECURSIVE RStripChars(_, _)
RStripChars(s, chars) ==
  IF s # <<>> /\ s[Len(s)] \in chars THEN RStripChars(SubSeq(s, 1, Len(s) - 1), chars) ELSE s

(* s.strip(chars) *)
StripChars(s, chars) == RStripChars(LStripChars(s, chars), chars)

s_pipe_jmespath == <<"|", " ", "j", "m", "e", "s", "p", "a", "t", "h">>

(* extract_placeholder_value without the final strip of whitespace *)
extract_placeholder_value_unstripped(placeholder) ==
  IF ~is_placeholder(placeholder) THEN placeholder
  ELSE VStr(StripChars(placeholder.v, {LBrace, RBrace}))

extract_placeholder_value(placeholder) ==
  IF ~is_placeholder(placeholder) THEN placeholder
  ELSE LET value == StripChars(placeholder.v, {LBrace, RBrace}) IN
       IF Contains(value, s_pipe_jmespath) THEN VStr(Strip(value))
       ELSE VStr(Strip(value))

(* bodies without a leading or trailing brace or blank: empty, paths, text *)
(* with a blank or a brace inside, and query expressions                   *)
Bodies ==
  { s_empty, s_a, s_a_b, <<"a", " ", "b">>, <<"a", "{", "b">>, <<"a", "}", "b">>,
    SubSeq(s_q_a_b, 4, Len(s_q_a_b) - 3),
    <<"a", "|", " ", "j", "m", "e", "s", "p", "a", "t", "h", "(", ")">> }

UtilsTexts ==
  Templates \cup LeafTexts
    \cup { <<LBrace>> \o b \o <<RBrace>> : b \in Bodies }
    \cup { <<LBrace, LBrace, Space>> \o b \o <<Space, RBrace, RBrace>> : b \in Bodies }

UtilsValues == { VStr(tx) : tx \in UtilsTexts } \cup { VInt(3), VNone, VList(<<VStr(s_ph_a)>>) }

(* a call of one of the three functions of utils.py *)
InitUtils ==
  /\ \/ /\ fn \in { "is_placeholder", "extract_placeholder_value" }
        /\ data \in UtilsValues
        /\ context = VDict(EmptyDict)
        /\ path = NoText
     \/ /\ fn = "utils.get_value_from_path"
        /\ data = VNone
        /\ context \in Contexts
        /\ path \in Paths
  /\ template = NoText
  /\ query = NoText
  /\ handle_missing = Omitted
  /\ result = Pending
  /\ heap = NoObjects
  /\ stack = <<>>
  /\ steps = 0

IsPlaceholder ==
  /\ fn = "is_placeholder"
  /\ result = Pending
  /\ result' = Ok(VBool(is_placeholder(data)))
  /\ UNCHANGED <<fn, template, path, query, data, context, handle_missing, heap, stack, steps>>

ExtractPlaceholderValue ==
  /\ fn = "extract_placeholder_value"
  /\ result = Pending
  /\ result' = Ok(extract_placeholder_value(data))
  /\ UNCHANGED <<fn, template, path, query, data, context, handle_missing, heap, stack, steps>>

UtilsGetValueFromPath ==
  /\ fn = "utils.get_value_from_path"
  /\ result = Pending
  /\ result' = Ok(utils_get_value_from_path(context, path))
  /\ UNCHANGED <<fn, template, path, query, data, context, handle_missing, heap, stack, steps>>

----------------------------------------------------------------------------
(* examples/ups_shipment_templify.py: create_shipments and what it calls.  *)
(* The templates are cut down to the fields that vary: PackageID of a      *)
(* package, CustomerContext and Package of a shipment.                     *)

PACKAGE_TEMPLATE == VDict(s_PackageID :> VStr(<<LBrace>> \o s_package_id \o <<RBrace>>))

BASE_SHIPMENT_TEMPLATE ==
  VDict((s_CustomerContext :> VStr(<<LBrace>> \o s_customer_context \o <<RBrace>>))
        @@ (s_Package :> VStr(<<LBrace>> \o s_packages \o <<RBrace>>)))

(* create_package_data (lines 88-104): the package template rendered with  *)
(* package_id = f"Package {package_id}"                                    *)
create_package_data(package_id) ==
  render_data(PACKAGE_TEMPLATE,
              VDict(s_package_id :> VStr(s_Package \o <<Space>> \o IntStr(package_id)))).val

create_packages_data(num_packages, start_id) ==
  VList([i \in 1..num_packages |-> create_package_data(start_id + i - 1)])

create_shipment(customer_context, packages) ==
  render_data(BASE_SHIPMENT_TEMPLATE,
              VDict((s_customer_context :> VStr(customer_context))
                    @@ (s_packages :> packages))).val

Min(a, b) == IF a <= b THEN a ELSE b

(* create_shipments for 0 <= total_packages and 0 <= packages_per_shipment *)
create_shipments(customer_context, total_packages, packages_per_shipment) ==
  IF packages_per_shipment = 0
  THEN Raise("ZeroDivisionError", "integer division or modulo by zero")
  ELSE LET num_shipments ==
             (total_packages + packages_per_shipment - 1) \div packages_per_shipment
       IN  Ok(VList([n \in 1..num_shipments |->
                 LET i == n - 1
                     start_idx == i * packages_per_shipment + 1
                     end_idx == Min((i + 1) * packages_per_shipment, total_packages)
                     num_packages_in_shipment == end_idx - start_idx + 1
                 IN  create_shipment(customer_context \o <<"-">> \o IntStr(i + 1),
                                     create_packages_data(num_packages_in_shipment,
                                                          start_idx))]))

MaxPackages == 5
MaxPerShipment == 3

(* the arguments total_packages and packages_per_shipment of a call *)
VArgs(total_packages, packages_per_shipment) ==
  [t |-> "args", v |-> [total_packages |-> total_packages,
                        packages_per_shipment |-> packages_per_shipment]]

(* create_shipments(template, ..., total_packages, packages_per_shipment)  *)
(* is called                                                               *)
InitShipments ==
  /\ fn = "create_shipments"
  /\ template \in { s_x, s_Al }
  /\ data \in { VArgs(total, limit) : total \in 0..MaxPackages, limit \in 0..MaxPerShipment }
  /\ context = VDict(EmptyDict)
  /\ path = NoText
  /\ query = NoText
  /\ handle_missing = Omitted
  /\ result = Pending
  /\ heap = NoObjects
  /\ stack = <<>>
  /\ steps = 0

CreateShipments ==
  /\ fn = "create_shipments"
  /\ result = Pending
  /\ result' = create_shipments(template, data.v.total_packages, data.v.packages_per_shipment)
  /\ UNCHANGED <<fn, template, path, query, data, context, handle_missing, heap, stack, steps>>

Init ==
  \/ InitData
  \/ InitText
  \/ InitPath
  \/ InitQuery
  \/ InitJinja2
  \/ InitUtils
  \/ InitShipments

Next ==
  \/ RenderData
  \/ RenderText
  \/ GetValueFromPath
  \/ ExecuteJmespathQuery
  \/ RenderJinja2
  \/ IsPlaceholder
  \/ ExtractPlaceholderValue
  \/ UtilsGetValueFromPath
  \/ CreateShipments

Spec == Init /\ [][Next]_vars

----------------------------------------------------------------------------
(* render_data step by step, on objects.                                   *)
(*                                                                         *)
(* A mapping or a sequence of Python is an object with an identity: the    *)
(* heap maps the address of each container to its content, whose elements  *)
(* are scalars or references to other containers.  The caller's tree lives *)
(* in the space "in", the context in the space "ctx", each container at    *)
(* the address of its position; a container that the call builds gets the  *)
(* next address of the space "new".  The stack holds one frame per active  *)
(* call of render_data: the node it renders, how far its comprehension or  *)
(* its re.sub has come, and what it has produced so far; steps counts the  *)
(* steps the call has taken.                                               *)

Addr(space, id) == [space |-> space, id |-> id]
Ref(a) == [t |-> "ref", v |-> a]

IsContainer(x) == x.t \in {"dict", "list"}

RECURSIVE ContainerPositions(_, _)
ContainerPositions(tree, pos) ==
  CASE tree.t = "dict" ->
         {pos} \cup UNION { ContainerPositions(tree.v[KeysOf(tree.v)[k]], Append(pos, k)) :
                              k \in 1..Len(KeysOf(tree.v)) }
    [] tree.t = "list" ->
         {pos} \cup UNION { ContainerPositions(tree.v[k], Append(pos, k)) :
                              k \in 1..Len(tree.v) }
    [] OTHER -> {}

RECURSIVE SubtreeAt(_, _)
SubtreeAt(tree, pos) ==
  IF pos = <<>> THEN tree
  ELSE SubtreeAt(IF tree.t = "dict" THEN tree.v[KeysOf(tree.v)[Head(pos)]]
                 ELSE tree.v[Head(pos)],
                 Tail(pos))

(* a value as an element of a container: a container by reference *)
AsObject(x, space, pos) == IF IsContainer(x) THEN Ref(Addr(space, pos)) ELSE x

KeyIndex(ks, key) == CHOOSE k \in 1..Len(ks) : ks[k] = key

Shallow(node, space, pos) ==
  IF node.t = "dict"
  THEN [t |-> "dict",
        v |-> [key \in DOMAIN node.v |->
                 AsObject(node.v[key], space, Append(pos, KeyIndex(KeysOf(node.v), key)))]]
  ELSE [t |-> "list",
        v |-> [k \in 1..Len(node.v) |-> AsObject(node.v[k], space, Append(pos, k))]]

(* the objects of a tree that the caller holds *)
Store(tree, space) ==
  [a \in { Addr(space, pos) : pos \in ContainerPositions(tree, <<>>) } |->
     Shallow(SubtreeAt(tree, a.id), space, a.id)]

RECURSIVE Load(_, _)
(* the value that an element denotes in a heap *)
Load(h, x) ==
  IF x.t # "ref" THEN x
  ELSE LET c == h[x.v] IN
       IF c.t = "dict" THEN VDict([key \in DOMAIN c.v |-> Load(h, c.v[key])])
       ELSE VList([k \in 1..Len(c.v) |-> Load(h, c.v[k])])

DataRoot == AsObject(data, "in", <<>>)
ContextRoot == AsObject(context, "ctx", <<>>)

(* the isinstance tests of render_data (core.py 314-324) on its argument *)
Frame(x, h) ==
  [kind |-> IF x.t = "ref" THEN h[x.v].t ELSE IF x.t = "str" THEN "str" ELSE "other",
   node |-> x,
   keys |-> IF x.t = "ref" /\ h[x.v].t = "dict" THEN KeysOf(h[x.v].v) ELSE <<>>,
   i |-> 1,
   acc |-> <<>>,
   out |-> <<>>]

Top == stack[Len(stack)]

(* the number of elements a container frame iterates over *)
Size(fr, h) == IF fr.kind = "dict" THEN Len(fr.keys) ELSE Len(h[fr.node.v].v)

(* the element a container frame renders next *)
Element(fr, h) ==
  IF fr.kind = "dict" THEN h[fr.node.v].v[fr.keys[fr.i]] ELSE h[fr.node.v].v[fr.i]

(* the comprehension's result written into the argument itself *)
BuildInPlace(h, fr) ==
  [heap |-> [h EXCEPT ![fr.node.v] =
               IF fr.kind = "dict"
               THEN [t |-> "dict",
                     v |-> [key \in DOMAIN h[fr.node.v].v |-> fr.acc[KeyIndex(fr.keys, key)]]]
               ELSE [t |-> "list", v |-> fr.acc]],
   ref |-> fr.node]

(* a dict or list comprehension (core.py 315, 317) has rendered all its    *)
(* elements: it is a new object                                            *)
BuildContainer(h, fr) ==
  LET a == Addr("new", <<Cardinality({ b \in DOMAIN h : b.space = "new" }) + 1>>)
      content == IF fr.kind = "dict"
                 THEN [t |-> "dict",
                       v |-> [key \in DOMAIN h[fr.node.v].v |-> fr.acc[KeyIndex(fr.keys, key)]]]
                 ELSE [t |-> "list", v |-> fr.acc]
  IN  [heap |-> (a :> content) @@ h, ref |-> Ref(a)]

(* the test of core.py 320 *)
IsQueryTemplate(s) == Contains(s, <<LBrace, LBrace>>) /\ Contains(s, <<RBrace, RBrace>>)

(* re.sub at position pos: the match that starts there, or the character *)
NextToken(s, pos, double) ==
  LET braces == IF double THEN 2 ELSE 1
      j == IF double THEN DoubleBraceEnd(s, pos) ELSE SingleBraceEnd(s, pos)
  IN  IF j # 0
      THEN Match(SubSeq(s, pos, j), SubSeq(s, pos + braces, j - braces))
      ELSE Lit(s[pos])

(* what re.sub emits for a token: the character itself, or what the        *)
(* replacement function returns or raises                                  *)
Replacement(tok, ctx, double) ==
  IF tok.lit THEN Ok(VStr(tok.text))
  ELSE IF double THEN replace_jmespath(tok.body, ctx)
  ELSE Ok(VStr(replace_placeholder(tok.body, ctx)))

(* re.sub resuming at the start of the token it has just replaced *)
ScanStays(pos, tok) == pos

(* re.sub resumes after the end of the token *)
ScanAdvance(pos, tok) == pos + Len(tok.text)

(* The templates and contexts of the step-by-step calls: string leaves     *)
(* with text, with a missing and a present reference, with a bare          *)
(* double-brace reference, with a query and with a placeholder of an       *)
(* invalid shape; scalars; empty containers; wrapped up to MaxWalkDepth    *)
(* deep in mappings and sequences.                                         *)
MaxWalkDepth == 2

WalkLeaves ==
  { VStr(s_empty), VStr(<<"H", "i", " ">> \o s_ph_b), VStr(<<"{", "c", "}">>),
    VStr(s_dph_a), VStr(s_q_a_b_cut), VStr(s_q_a_upper), VInt(3), VNone,
    VList(<<>>), VDict(EmptyDict) }

RECURSIVE WalkTrees(_)
WalkTrees(d) ==
  IF d = 0 THEN WalkLeaves
  ELSE LET sub == WalkTrees(d - 1) IN
       sub
       \cup { VDict(s_x :> tr) : tr \in sub }
       \cup { VDict((s_x :> tr) @@ (s_y :> VStr(s_ph_b))) : tr \in sub }
       \cup { VList(<<tr>>) : tr \in sub }
       \cup { VList(<<VInt(1), tr>>) : tr \in sub }

WalkContexts ==
  { VDict(EmptyDict),
    VDict((s_a :> VDict(s_b :> VInt(5))) @@ (s_b :> VStr(s_Bo))),
    VDict((s_a :> VStr(s_Al)) @@ (s_b :> VList(<<VInt(1), VStr(s_b)>>))) }

WalkInit ==
  /\ fn = "render_data"
  /\ data \in WalkTrees(MaxWalkDepth)
  /\ context \in WalkContexts
  /\ template = NoText
  /\ path = NoText
  /\ query = NoText
  /\ handle_missing = Omitted
  /\ result = Pending
  /\ heap = Store(data, "in") @@ Store(context, "ctx")
  /\ stack = <<Frame(DataRoot, heap)>>
  /\ steps = 0

(* a call of render_data returns v: to the caller, or to the comprehension *)
(* of the frame below, which goes on to its next element                   *)
Return(v) ==
  IF Len(stack) = 1
  THEN stack' = <<>> /\ result' = Ok(v)
  ELSE /\ stack' = [SubSeq(stack, 1, Len(stack) - 1) EXCEPT
                      ![Len(stack) - 1].acc = Append(@, v),
                      ![Len(stack) - 1].i = @ + 1]
       /\ UNCHANGED result

(* core.py 315, 317: the comprehension calls render_data on its next element *)
WalkDescend ==
  /\ stack # <<>>
  /\ steps' = steps + 1
  /\ Top.kind \in {"dict", "list"}
  /\ Top.i <= Size(Top, heap)
  /\ stack' = Append(stack, Frame(Element(Top, heap), heap))
  /\ UNCHANGED <<fn, template, path, query, data, context, handle_missing, result, heap>>

(* core.py 315, 317: the comprehension is exhausted and its container is returned *)
WalkBuild ==
  /\ stack # <<>>
  /\ steps' = steps + 1
  /\ Top.kind \in {"dict", "list"}
  /\ Top.i > Size(Top, heap)
  /\ LET built == BuildContainer(heap, Top) IN
     /\ heap' = built.heap
     /\ Return(built.ref)
  /\ UNCHANGED <<fn, template, path, query, data, context, handle_missing>>

(* core.py 318-323: re.sub handles the next match or character of a string *)
(* leaf; an exception of the replacement function leaves every active call *)
WalkScan ==
  /\ stack # <<>>
  /\ steps' = steps + 1
  /\ Top.kind = "str"
  /\ Top.i <= Len(Top.node.v)
  /\ LET double == IsQueryTemplate(Top.node.v)
         tok == NextToken(Top.node.v, Top.i, double)
         r == Replacement(tok, Load(heap, ContextRoot), double)
     IN  IF r.kind = "raise"
         THEN stack' = <<>> /\ result' = r
         ELSE /\ stack' = [stack EXCEPT ![Len(stack)].i = ScanAdvance(@, tok),
                                        ![Len(stack)].out = @ \o r.val.v]
              /\ UNCHANGED result
  /\ UNCHANGED <<fn, template, path, query, data, context, handle_missing, heap>>

(* core.py 318-323: re.sub has reached the end of the string *)
WalkReturnStr ==
  /\ stack # <<>>
  /\ steps' = steps + 1
  /\ Top.kind = "str"
  /\ Top.i > Len(Top.node.v)
  /\ Return(VStr(Top.out))
  /\ UNCHANGED <<fn, template, path, query, data, context, handle_missing, heap>>

(* core.py 324: any other value is returned as it is *)
WalkReturnOther ==
  /\ stack # <<>>
  /\ steps' = steps + 1
  /\ Top.kind = "other"
  /\ Return(Top.node)
  /\ UNCHANGED <<fn, template, path, query, data, context, handle_missing, heap>>

WalkNext == WalkDescend \/ WalkBuild \/ WalkScan \/ WalkReturnStr \/ WalkReturnOther

WalkSpec == WalkInit /\ [][WalkNext]_vars

----------------------------------------------------------------------------
(* What a path denotes in a context, segment by segment: the reading of    *)
(* "present" and "the value stored at the end of the chain" that the       *)
(* properties below compare the code with.                                 *)

RECURSIVE Present(_, _)
Present(x, segs) ==
  IF segs = <<>> THEN TRUE
  ELSE /\ x.t = "dict"
       /\ Head(segs) \in DOMAIN x.v
       /\ Present(x.v[Head(segs)], Tail(segs))

RECURSIVE ValueAt(_, _)
ValueAt(x, segs) == IF segs = <<>> THEN x ELSE ValueAt(x.v[Head(segs)], Tail(segs))

(* the segment lists whose dotted form is the string p *)
SegsOf(p) == { segs \in SegLists : JoinWith(<<Dot>>, segs) = p }

Returned == result.kind = "ok"

----------------------------------------------------------------------------
(* The placeholders of a string as the specification reads them: the       *)
(* double-brace references when the string holds one, the single-brace     *)
(* references otherwise; a reference resolves when its path is present.    *)

PresentPath(ctx, p) == Present(ctx, Split(p, Dot))
ValueAtPath(ctx, p) == ValueAt(ctx, Split(p, Dot))

HasMatch(toks) == \E k \in 1..Len(toks) : ~toks[k].lit

(* a token sequence with each match replaced by Repl[k], literals kept *)
Rebuilt(toks, Repl) ==
  Concat([k \in 1..Len(toks) |-> IF toks[k].lit THEN toks[k].text ELSE Repl[k]])

SingleRefs(s) == SingleBraceTokens(s, 1)
DoubleRefs(s) == DoubleBraceTokens(s, 1)

(* every double-brace placeholder of s is a bare reference (no pipe) *)
AllBare(s) ==
  \A k \in 1..Len(DoubleRefs(s)) :
    DoubleRefs(s)[k].lit \/ ~Contains(DoubleRefs(s)[k].body, <<Pipe>>)

(* rendering under KEEP: resolved references become str(value), the others *)
(* stay as written                                                         *)
KeepSingle(s, ctx) ==
  LET toks == SingleRefs(s) IN
  Rebuilt(toks, [k \in 1..Len(toks) |->
    IF toks[k].lit THEN <<>>
    ELSE IF PresentPath(ctx, toks[k].body) THEN PyStr(ValueAtPath(ctx, toks[k].body))
    ELSE toks[k].text])

KeepDouble(s, ctx) ==
  LET toks == DoubleRefs(s) IN
  Rebuilt(toks, [k \in 1..Len(toks) |->
    IF toks[k].lit THEN <<>>
    ELSE IF PresentPath(ctx, Strip(toks[k].body))
         THEN PyStr(ValueAtPath(ctx, Strip(toks[k].body)))
    ELSE toks[k].text])

(* the paths of the string's references that do not resolve *)
UnresolvedPaths(s, ctx) ==
  IF HasMatch(DoubleRefs(s))
  THEN { Strip(DoubleRefs(s)[k].body) : k \in { m \in 1..Len(DoubleRefs(s)) :
           /\ ~DoubleRefs(s)[m].lit
           /\ ~Contains(DoubleRefs(s)[m].body, <<Pipe>>)
           /\ ~PresentPath(ctx, Strip(DoubleRefs(s)[m].body)) } }
  ELSE { SingleRefs(s)[k].body : k \in { m \in 1..Len(SingleRefs(s)) :
           /\ ~SingleRefs(s)[m].lit
           /\ ~PresentPath(ctx, SingleRefs(s)[m].body) } }

DefaultCall == fn = "render_text" /\ handle_missing = Omitted /\ result # Pending
DataCall == fn = "render_data" /\ result # Pending

(* C1: a string leaf that is exactly one placeholder "{p}", with p present *)
(* and bound to a mapping or a sequence, is replaced by that value itself  *)
(* (here: the leaf as the whole tree, as a mapping's value, as a           *)
(* sequence's element).                                                    *)
C1_WholeLeafKeepsStructure ==
  DataCall =>
    \A segs \in SegLists :
      LET leaf == VStr(<<LBrace>> \o JoinWith(<<Dot>>, segs) \o <<RBrace>>) IN
      (Present(context, segs) /\ ValueAt(context, segs).t \in {"dict", "list"}) =>
        /\ data = leaf => result = Ok(ValueAt(context, segs))
        /\ data = VDict(s_x :> leaf) => result = Ok(VDict(s_x :> ValueAt(context, segs)))
        /\ data = VList(<<leaf>>) => result = Ok(VList(<<ValueAt(context, segs)>>))

(* C2: for every path p present in the context, render_text("{p}", C) is   *)
(* str of the value stored at p, whatever that value is.                   *)
C2_PresentPathRendersStr ==
  DefaultCall =>
    \A segs \in SegLists :
      (/\ template = <<LBrace>> \o JoinWith(<<Dot>>, segs) \o <<RBrace>>
       /\ Present(context, segs))
      => result = Ok(VStr(PyStr(ValueAt(context, segs))))

(* C3: under the default policy render_text returns normally, with every   *)
(* unresolved single-brace placeholder left as written and every resolved  *)
(* one substituted.                                                        *)
C3_KeepLeavesUnresolvedSubstitutesResolved ==
  DefaultCall => result = Ok(VStr(KeepSingle(template, context)))

(* a single-brace placeholder: a '{', one or more characters other than    *)
(* '}', and a '}'                                                          *)
HasPlaceholderSyntax(s) ==
  \E i \in 1..Len(s) : \E j \in (i + 2)..Len(s) :
    /\ s[i] = LBrace
    /\ s[j] = RBrace
    /\ \A k \in (i + 1)..(j - 1) : s[k] # RBrace

RECURSIVE PlaceholderFree(_)
PlaceholderFree(tree) ==
  CASE tree.t = "dict" -> \A k \in DOMAIN tree.v : PlaceholderFree(tree.v[k])
    [] tree.t = "list" -> \A k \in 1..Len(tree.v) : PlaceholderFree(tree.v[k])
    [] tree.t = "str" -> ~HasPlaceholderSyntax(tree.v)
    [] OTHER -> TRUE

(* C4: render_data returns a tree equal to its input when no string leaf   *)
(* of the input holds placeholder syntax.                                  *)
C4_PlaceholderFreeTreeUnchanged ==
  (DataCall /\ PlaceholderFree(data)) => result = Ok(data)

(* C4 witness: a two-level tree with a non-string scalar and a string leaf *)
(* that holds braces but no placeholder has been rendered                  *)
C4_Witness ==
  /\ DataCall
  /\ PlaceholderFree(data)
  /\ data = VDict(s_x :> VList(<<VInt(1), VStr(<<RBrace, RBrace, LBrace, LBrace>>)>>))
  /\ result = Ok(data)

(* C5: whenever every segment of the path is a key of the mapping reached  *)
(* by the preceding segments, get_value_from_path returns exactly the      *)
(* value stored at the end of that chain, at any nesting depth.            *)
C5_PresentPathReturnsStoredValue ==
  (fn = "get_value_from_path" /\ Returned) =>
    \A segs \in SegsOf(path) :
      Present(context, segs) => result.val = ValueAt(context, segs)

(* C5 witness: a chain of three mappings has been descended to its value *)
C5_Witness ==
  /\ fn = "get_value_from_path" /\ Returned
  /\ \E segs \in SegsOf(path) :
       /\ Len(segs) = 3
       /\ Present(context, segs)
       /\ result.val = VInt(7)

(* C6: get_value_from_path never raises; it returns the not-found sentinel *)
(* (the path string) whenever a key is absent or the value reached is not  *)
(* a mapping, and in no other case.                                        *)
C6_SentinelExactlyWhenNotFound ==
  (fn = "get_value_from_path" /\ result # Pending) =>
    /\ Returned
    /\ \A segs \in SegsOf(path) :
         (result.val = VStr(path)) <=> ~Present(context, segs)

(* C7: under RAISE, render_text raises ValueError whenever a placeholder   *)
(* of the template does not resolve.                                       *)
C7_RaisePolicyRaisesValueError ==
  (/\ fn = "render_text"
   /\ handle_missing = "RAISE"
   /\ result # Pending
   /\ UnresolvedPaths(template, context) # {})
  => (result.kind = "raise" /\ result.val.v[1] = "ValueError")

(* the default DEFAULT substitutes for an unresolved path *)
DefaultFor(p) ==
  IF Contains(p, <<"_", "n", "u", "m">>) THEN <<"0">>
  ELSE IF Contains(p, <<"_", "l", "i", "s", "t">>) THEN <<"[", "]">>
  ELSE IF Contains(p, <<"_", "b", "o", "o", "l">>) THEN s_False
  ELSE <<>>

DefaultSingle(s, ctx) ==
  LET toks == SingleRefs(s) IN
  Rebuilt(toks, [k \in 1..Len(toks) |->
    IF toks[k].lit THEN <<>>
    ELSE IF PresentPath(ctx, toks[k].body) THEN PyStr(ValueAtPath(ctx, toks[k].body))
    ELSE DefaultFor(toks[k].body)])

DefaultDouble(s, ctx) ==
  LET toks == DoubleRefs(s) IN
  Rebuilt(toks, [k \in 1..Len(toks) |->
    IF toks[k].lit THEN <<>>
    ELSE IF PresentPath(ctx, Strip(toks[k].body))
         THEN PyStr(ValueAtPath(ctx, Strip(toks[k].body)))
    ELSE DefaultFor(Strip(toks[k].body))])

(* C8: under DEFAULT, render_text returns the template with every          *)
(* unresolved placeholder replaced by the default its path names and every *)
(* resolved one substituted.                                               *)
C8_DefaultPolicySubstitutesDefaults ==
  (/\ fn = "render_text"
   /\ handle_missing = "DEFAULT"
   /\ result # Pending
   /\ UnresolvedPaths(template, context) # {}
   /\ AllBare(template))
  => result = Ok(VStr(IF HasMatch(DoubleRefs(template))
                      THEN DefaultDouble(template, context)
                      ELSE DefaultSingle(template, context)))

(* the string a call renders: render_text's template, or render_data's     *)
(* tree when it is a single string                                         *)
RenderedString == IF fn = "render_text" THEN template ELSE data.v

(* C9: render_text and render_data both emit an unresolved bare            *)
(* double-brace reference as written, braces included, beside the          *)
(* substituted resolved ones.                                              *)
C9_KeepDoubleBraceVerbatim ==
  (/\ DefaultCall \/ (DataCall /\ data.t = "str")
   /\ HasMatch(DoubleRefs(RenderedString))
   /\ AllBare(RenderedString))
  => result = Ok(VStr(KeepDouble(RenderedString, context)))

(* C10: render_text replaces each "{{ p }}" whose path is present by str   *)
(* of its value, as render_data does for the same string.                  *)
C10_RenderTextResolvesDoubleBrace ==
  (/\ DefaultCall
   /\ HasMatch(DoubleRefs(template))
   /\ AllBare(template)
   /\ UnresolvedPaths(template, context) = {})
  => (/\ result = Ok(VStr(KeepDouble(template, context)))
      /\ result = render_data(VStr(template), context))

----------------------------------------------------------------------------
(* The query placeholders of a string as the specification writes them:    *)
(* "{{ path | jmespath("expr") }}".                                        *)

s_query_open == s_jmespath_open \o <<"\"">>
s_query_close == <<"\"", ")">>

IsQueryBody(body) ==
  LET parts == Split(Strip(body), Pipe) IN
  /\ Len(parts) = 2
  /\ LET call == Strip(parts[2]) IN
     /\ Len(call) >= Len(s_query_open) + Len(s_query_close)
     /\ StartsWith(call, s_query_open)
     /\ SubSeq(call, Len(call) - 1, Len(call)) = s_query_close

WrittenPath(body) == Strip(Split(Strip(body), Pipe)[1])

WrittenExpr(body) ==
  LET call == Strip(Split(Strip(body), Pipe)[2]) IN
  SubSeq(call, Len(s_query_open) + 1, Len(call) - Len(s_query_close))

(* the query language rejects the expression, or evaluates it to None *)
RejectedOrNone(expression, d) ==
  LET r == JmespathSearch(expression, d) IN r.kind = "raise" \/ r.val = VNone

(* a query placeholder whose data path resolves and whose query fails *)
QueryFails(body, ctx) ==
  /\ IsQueryBody(body)
  /\ PresentPath(ctx, WrittenPath(body))
  /\ RejectedOrNone(WrittenExpr(body), ValueAtPath(ctx, WrittenPath(body)))

RECURSIVE HasFailingQuery(_, _)
HasFailingQuery(tree, ctx) ==
  CASE tree.t = "dict" -> \E k \in DOMAIN tree.v : HasFailingQuery(tree.v[k], ctx)
    [] tree.t = "list" -> \E k \in 1..Len(tree.v) : HasFailingQuery(tree.v[k], ctx)
    [] tree.t = "str" -> \E k \in 1..Len(DoubleRefs(tree.v)) :
                           /\ ~DoubleRefs(tree.v)[k].lit
                           /\ QueryFails(DoubleRefs(tree.v)[k].body, ctx)
    [] OTHER -> FALSE

RaisedValueError == result.kind = "raise" /\ result.val.v[1] = "ValueError"

(* the string is one double-brace placeholder whose body holds a pipe *)
IsOnePipedPlaceholder(s) ==
  /\ Len(DoubleRefs(s)) = 1
  /\ ~DoubleRefs(s)[1].lit
  /\ Contains(DoubleRefs(s)[1].body, <<Pipe>>)

(* C11: render_data raises ValueError for every tree that holds a query    *)
(* placeholder whose data path resolves and whose query is rejected or     *)
(* evaluates to None; the query evaluator raises ValueError in those two   *)
(* cases and never returns None; a query placeholder is never rendered as  *)
(* the text "None".                                                        *)
C11_FailingQueryRaisesValueError ==
  /\ (DataCall /\ HasFailingQuery(data, context)) => RaisedValueError
  /\ (DataCall /\ data.t = "str" /\ IsOnePipedPlaceholder(data.v))
       => result # Ok(VStr(s_None))
  /\ (fn = "execute_jmespath_query" /\ result # Pending) =>
       /\ result # Ok(VNone)
       /\ RejectedOrNone(query, data) => RaisedValueError

(* C11 witness: a query placeholder two levels deep, whose data path "a"   *)
(* resolves to a mapping in which the queried field is None, has made the  *)
(* call raise ValueError                                                   *)
C11_Witness ==
  /\ DataCall
  /\ data = VDict(s_x :> VList(<<VInt(1), VStr(s_q_a_b)>>))
  /\ context = VDict(s_a :> VDict(s_b :> VNone))
  /\ HasFailingQuery(data, context)
  /\ RaisedValueError

(* a piped body of the shape "path | jmespath(...)" *)
IsQueryShape(body) ==
  LET parts == Split(Strip(body), Pipe) IN
  Len(parts) = 2 /\ StartsWith(Strip(parts[2]), s_jmespath_open)

(* every double-brace placeholder of every string leaf is a bare reference *)
(* or a query placeholder whose data path is missing: nothing but a        *)
(* missing path stands in the way of the rendering                         *)
RECURSIVE OnlyMissingPaths(_, _)
OnlyMissingPaths(tree, ctx) ==
  CASE tree.t = "dict" -> \A k \in DOMAIN tree.v : OnlyMissingPaths(tree.v[k], ctx)
    [] tree.t = "list" -> \A k \in 1..Len(tree.v) : OnlyMissingPaths(tree.v[k], ctx)
    [] tree.t = "str" -> \A k \in 1..Len(DoubleRefs(tree.v)) :
                           LET tok == DoubleRefs(tree.v)[k] IN
                           \/ tok.lit
                           \/ ~Contains(tok.body, <<Pipe>>)
                           \/ /\ IsQueryShape(tok.body)
                              /\ ~PresentPath(ctx, WrittenPath(tok.body))
    [] OTHER -> TRUE

(* C12: without a policy argument (KEEP) no missing path makes render_text *)
(* or render_data fail, be it the path of a simple reference, of a bare    *)
(* double-brace reference or the data path of a query placeholder; a query *)
(* placeholder whose data path is missing is emitted as written.           *)
C12_KeepNeverFailsOnMissingPath ==
  /\ DefaultCall => Returned
  /\ (DataCall /\ OnlyMissingPaths(data, context)) => Returned
  /\ (/\ DataCall
      /\ data.t = "str"
      /\ IsOnePipedPlaceholder(data.v)
      /\ OnlyMissingPaths(data, context))
     => result = Ok(data)

(* the exceptions that rendering the string leaves of a tree raises, each  *)
(* leaf taken on its own                                                   *)
RECURSIVE LeafFailures(_, _)
LeafFailures(tree, ctx) ==
  CASE tree.t = "dict" -> UNION { LeafFailures(tree.v[k], ctx) : k \in DOMAIN tree.v }
    [] tree.t = "list" -> UNION { LeafFailures(tree.v[k], ctx) : k \in 1..Len(tree.v) }
    [] tree.t = "str" -> LET r == render_jmespath_template(tree.v, ctx) IN
                         IF r.kind = "raise" THEN {r} ELSE {}
    [] OTHER -> {}

(* C13: when rendering a leaf anywhere in the tree raises, render_data     *)
(* raises that same exception, with its type and message, and returns no   *)
(* tree.                                                                   *)
C13_LeafFailureAbortsUnchanged ==
  (DataCall /\ LeafFailures(data, context) # {}) =>
    /\ result.kind = "raise"
    /\ result \in LeafFailures(data, context)

(* C13 witness: a placeholder of an invalid shape two levels deep, beside  *)
(* a sibling that renders, has made the whole call raise its error         *)
C13_Witness ==
  /\ DataCall
  /\ data = VDict((s_x :> VList(<<VInt(1), VStr(s_q_a_upper)>>)) @@ (s_y :> VStr(s_ph_b)))
  /\ context = VDict((s_a :> VStr(s_Al)) @@ (s_b :> VInt(5)))
  /\ LeafFailures(data, context) # {}
  /\ result = Raise("ValueError", "Invalid JMESPath expression")

(* res has the skeleton of tree: the same keys in a mapping, the same      *)
(* length in a sequence, each element being the rendering of the element   *)
(* at the same key or index, and so on down to the leaves                  *)
RECURSIVE SameSkeleton(_, _, _)
SameSkeleton(tree, res, ctx) ==
  CASE tree.t = "dict" ->
         /\ res.t = "dict"
         /\ DOMAIN res.v = DOMAIN tree.v
         /\ \A key \in DOMAIN tree.v :
              /\ Ok(res.v[key]) = render_data(tree.v[key], ctx)
              /\ SameSkeleton(tree.v[key], res.v[key], ctx)
    [] tree.t = "list" ->
         /\ res.t = "list"
         /\ Len(res.v) = Len(tree.v)
         /\ \A k \in 1..Len(tree.v) :
              /\ Ok(res.v[k]) = render_data(tree.v[k], ctx)
              /\ SameSkeleton(tree.v[k], res.v[k], ctx)
    [] OTHER -> res.t \notin {"dict", "list"}

(* C15: a tree that render_data returns has the skeleton of its input: a   *)
(* mapping for a mapping with exactly its keys, a sequence for a sequence  *)
(* with its length and with the rendering of the i-th element at index i,  *)
(* at every depth.                                                         *)
C15_SkeletonPreserved ==
  (DataCall /\ Returned) => SameSkeleton(data, result.val, context)

(* C15 witness: a mapping of two keys that holds a sequence of two         *)
(* elements has been rendered, and one leaf of each level was substituted  *)
C15_Witness ==
  /\ DataCall
  /\ data = VDict((s_x :> VList(<<VInt(1), VStr(s_ph_a)>>)) @@ (s_y :> VStr(s_ph_b)))
  /\ context = VDict((s_a :> VStr(s_Al)) @@ (s_b :> VInt(5)))
  /\ result = Ok(VDict((s_x :> VList(<<VInt(1), VStr(s_Al)>>)) @@ (s_y :> VStr(<<"5">>))))
  /\ SameSkeleton(data, result.val, context)

(* every leaf of tree that is not a string is found in res as it is *)
RECURSIVE NonStringLeavesKept(_, _)
NonStringLeavesKept(tree, res) ==
  CASE tree.t = "dict" -> \A key \in DOMAIN tree.v : NonStringLeavesKept(tree.v[key], res.v[key])
    [] tree.t = "list" -> \A k \in 1..Len(tree.v) : NonStringLeavesKept(tree.v[k], res.v[k])
    [] tree.t = "str" -> TRUE
    [] OTHER -> res = tree

(* str(datetime(2024, 3, 15, 14, 30)) *)
s_test_date_str ==
  <<"2", "0", "2", "4", "-", "0", "3", "-", "1", "5", " ", "1", "4", ":", "3", "0", ":", "0", "0">>

(* datetime(2024, 3, 15, 14, 30).isoformat() *)
s_test_date_iso ==
  <<"2", "0", "2", "4", "-", "0", "3", "-", "1", "5", "T", "1", "4", ":", "3", "0", ":", "0", "0">>

RECURSIVE DatetimeLeavesIso(_, _)
DatetimeLeavesIso(tree, res) ==
  CASE tree.t = "dict" -> \A key \in DOMAIN tree.v : DatetimeLeavesIso(tree.v[key], res.v[key])
    [] tree.t = "list" -> \A k \in 1..Len(tree.v) : DatetimeLeavesIso(tree.v[k], res.v[k])
    [] tree = test_date -> res = VStr(s_test_date_iso)
    [] tree.t \in {"int", "bool"} -> res = tree
    [] OTHER -> TRUE

(* C17: render_data replaces every datetime leaf by its isoformat() string *)
(* and leaves numbers and booleans at leaves as they are.                  *)
C17_DatetimeLeavesBecomeIso ==
  (DataCall /\ Returned) => DatetimeLeavesIso(data, result.val)

PipeCount(s) == Cardinality({ i \in 1..Len(s) : s[i] = Pipe })

(* the text after the first pipe of s *)
AfterPipe(s) ==
  LET i == CHOOSE i \in 1..Len(s) : s[i] = Pipe /\ \A m \in 1..(i - 1) : s[m] # Pipe
  IN  SubSeq(s, i + 1, Len(s))

(* a body that holds a pipe and is not "<path> | jmespath(...": more than  *)
(* one pipe, or a second part that starts otherwise                        *)
BadPipeShape(body) ==
  /\ PipeCount(body) >= 1
  /\ \/ PipeCount(body) >= 2
     \/ ~StartsWith(Strip(AfterPipe(body)), s_jmespath_open)

RECURSIVE HasBadPipeShape(_)
HasBadPipeShape(tree) ==
  CASE tree.t = "dict" -> \E k \in DOMAIN tree.v : HasBadPipeShape(tree.v[k])
    [] tree.t = "list" -> \E k \in 1..Len(tree.v) : HasBadPipeShape(tree.v[k])
    [] tree.t = "str" -> \E k \in 1..Len(DoubleRefs(tree.v)) :
                           /\ ~DoubleRefs(tree.v)[k].lit
                           /\ BadPipeShape(DoubleRefs(tree.v)[k].body)
    [] OTHER -> FALSE

InvalidExpression == Raise("ValueError", "Invalid JMESPath expression")

C20_DispatchOnDoubleBracePlaceholder ==
  (DataCall /\ data.t = "str") =>
    IF HasMatch(DoubleRefs(data.v))
    THEN result = render_jmespath_template(data.v, context)
    ELSE result = Ok(VStr(render_text(data.v, context)))

----------------------------------------------------------------------------
(* Properties of the step-by-step calls (WalkSpec) *)

WalkDone == stack = <<>> /\ result # Pending

RECURSIVE ContainersOf(_, _)
(* the addresses of the containers that an element is made of *)
ContainersOf(h, x) ==
  IF x.t # "ref" THEN {}
  ELSE {x.v} \cup UNION { ContainersOf(h, h[x.v].v[k]) : k \in DOMAIN h[x.v].v }

(* C14: at every step of a call of render_data and after it, returned or   *)
(* raised, the caller's template tree and context hold the values they     *)
(* held when the call was made, and no container of a returned result is   *)
(* a container of the caller's tree or context: each was built by the      *)
(* call.                                                                   *)
C14_InputsNotMutated ==
  /\ Load(heap, DataRoot) = data
  /\ Load(heap, ContextRoot) = context
  /\ (WalkDone /\ result.kind = "ok") =>
       \A a \in ContainersOf(heap, result.val) : a.space = "new"

(* C14 witness: a mapping that holds a sequence has been rendered to a     *)
(* different value, and the caller's mapping still holds the placeholders  *)
C14_Witness ==
  /\ WalkDone
  /\ result.kind = "ok"
  /\ data = VDict((s_x :> VList(<<VInt(1), VStr(<<"H", "i", " ">> \o s_ph_b)>>))
                  @@ (s_y :> VStr(s_ph_b)))
  /\ Load(heap, result.val) # data
  /\ Cardinality(ContainersOf(heap, result.val)) = 2
  /\ Load(heap, DataRoot) = data

RECURSIVE SumOf(_)
SumOf(ns) == IF ns = <<>> THEN 0 ELSE Head(ns) + SumOf(Tail(ns))

RECURSIVE TokensFrom(_, _, _)
TokensFrom(str, pos, double) ==
  IF pos > Len(str) THEN 0
  ELSE 1 + TokensFrom(str, pos + Len(NextToken(str, pos, double).text), double)

(* the matches and characters of a string leaf left to scan from pos *)
TokensLeft(str, pos) == TokensFrom(str, pos, IsQueryTemplate(str))

RECURSIVE StepsFor(_, _)
(* the steps that rendering an element takes when nothing raises: one per  *)
(* token and one to return for a string, one for another scalar, and for   *)
(* a container one per element to call, the steps of each element, and one *)
(* to return                                                               *)
StepsFor(h, x) ==
  IF x.t = "ref"
  THEN LET elems == IF h[x.v].t = "dict"
                    THEN [k \in 1..Len(KeysOf(h[x.v].v)) |-> h[x.v].v[KeysOf(h[x.v].v)[k]]]
                    ELSE h[x.v].v
       IN  SumOf([k \in 1..Len(elems) |-> 1 + StepsFor(h, elems[k])]) + 1
  ELSE IF x.t = "str" THEN TokensLeft(x.v, 1) + 1
  ELSE 1

(* the steps left to the k-th frame of the stack *)
StepsLeft(k) ==
  LET fr == stack[k] IN
  CASE fr.kind = "str" -> TokensLeft(fr.node.v, fr.i) + 1
    [] fr.kind = "other" -> 1
    [] OTHER ->
         LET from == IF k = Len(stack) THEN fr.i ELSE fr.i + 1
             elems == IF fr.kind = "dict"
                      THEN [j \in 1..Len(fr.keys) |-> heap[fr.node.v].v[fr.keys[j]]]
                      ELSE heap[fr.node.v].v
         IN  SumOf([j \in 1..(Len(elems) - from + 1) |->
                      1 + StepsFor(heap, elems[from + j - 1])]) + 1

(* the variant of the call: the steps left to all its active frames *)
Measure == SumOf([k \in 1..Len(stack) |-> StepsLeft(k)])

RECURSIVE TreeHeight(_)
TreeHeight(tree) ==
  IF IsContainer(tree)
  THEN LET hs == { TreeHeight(tree.v[k]) : k \in DOMAIN tree.v } IN
       1 + (IF hs = {} THEN 0 ELSE CHOOSE n \in hs : \A m \in hs : m <= n)
  ELSE 1

(* every active call but the first renders the element that the call below *)
(* it has reached, a child of that call's node, and a scan stays inside    *)
(* its string                                                              *)
StackNests ==
  /\ Len(stack) <= TreeHeight(data)
  /\ \A k \in 2..Len(stack) :
       /\ stack[k - 1].kind \in {"dict", "list"}
       /\ stack[k].node = Element(stack[k - 1], heap)
       /\ stack[k].node.t = "ref" =>
            stack[k].node.v.id = Append(stack[k - 1].node.v.id, stack[k - 1].i)
  /\ \A k \in 1..Len(stack) :
       stack[k].kind = "str" => stack[k].i <= Len(stack[k].node.v) + 1

(* a call that has not come to its end has a frame that can take a step *)
CanStep ==
  result = Pending =>
    /\ stack # <<>>
    /\ \/ Top.kind \in {"dict", "list"} /\ Top.node.t = "ref"
       \/ Top.kind = "str" /\ Top.node.t = "str"
       \/ Top.kind = "other" /\ Top.node.t \notin {"ref", "str"}

(* C19: a call of render_data comes to its end on every tree and context:  *)
(* each recursive call is on a child of the node of the call that makes    *)
(* it, each scan stays inside its string, a call that has not returned or  *)
(* raised can take a step, and the steps taken and the steps left are      *)
(* together the steps that the size of the tree and of its strings allows, *)
(* so that every step brings the steps left down by one and a call ends    *)
(* within that number of steps.                                            *)
C19_RenderDataTerminates ==
  /\ StackNests
  /\ CanStep
  /\ result = Pending => steps + Measure = StepsFor(Store(data, "in"), DataRoot)
  /\ WalkDone => steps <= StepsFor(Store(data, "in"), DataRoot)

(* C19 witness: a sequence that holds a mapping of two string leaves has   *)
(* been rendered to its end                                                *)
C19_Witness ==
  /\ WalkDone
  /\ steps = StepsFor(Store(data, "in"), DataRoot)
  /\ data = VList(<<VInt(1), VDict((s_x :> VStr(<<"H", "i", " ">> \o s_ph_b))
                                   @@ (s_y :> VStr(s_ph_b)))>>)
  /\ context = VDict((s_a :> VDict(s_b :> VInt(5))) @@ (s_b :> VStr(s_Bo)))
  /\ result.kind = "ok"
  /\ Load(heap, result.val) = VList(<<VInt(1), VDict((s_x :> VStr(<<"H", "i", " ">> \o s_Bo))
                                                     @@ (s_y :> VStr(s_Bo)))>>)

----------------------------------------------------------------------------
(* The single-brace placeholders of a string read as the shortest runs: a  *)
(* '{', one or more characters that are neither '{' nor '}', and a '}'.    *)

RECURSIVE NextBrace(_, _)
(* the least index >= k of a brace in s, or 0 *)
NextBrace(s, k) ==
  IF k > Len(s) THEN 0
  ELSE IF s[k] \in {LBrace, RBrace} THEN k
  ELSE NextBrace(s, k + 1)

ShortestRunEnd(s, i) ==
  IF s[i] # LBrace THEN 0
  ELSE LET j == NextBrace(s, i + 1) IN
       IF j > i + 1 /\ s[j] = RBrace THEN j ELSE 0

RECURSIVE ShortestRunTokens(_, _)
ShortestRunTokens(s, i) ==
  IF i > Len(s) THEN <<>>
  ELSE LET j == ShortestRunEnd(s, i) IN
       IF j # 0
       THEN <<Match(SubSeq(s, i, j), SubSeq(s, i + 1, j - 1))>> \o ShortestRunTokens(s, j + 1)
       ELSE <<Lit(s[i])>> \o ShortestRunTokens(s, i + 1)

(* C21: render_text matches the shortest runs between '{' and '}': no body *)
(* of a matched placeholder holds a brace, and the output is the template  *)
(* with each shortest run replaced, so that in "{a{b}" it is "{b}" that is *)
(* resolved.                                                               *)
C21_SingleBraceShortestRun ==
  DefaultCall =>
    /\ \A k \in 1..Len(SingleRefs(template)) :
         SingleRefs(template)[k].lit \/ ~Contains(SingleRefs(template)[k].body, <<LBrace>>)
    /\ LET toks == ShortestRunTokens(template, 1) IN
       result = Ok(VStr(Rebuilt(toks, [k \in 1..Len(toks) |->
                  IF toks[k].lit THEN <<>> ELSE replace_placeholder(toks[k].body, context)])))

----------------------------------------------------------------------------
MatchCount(toks) == Cardinality({k \in 1..Len(toks) : ~toks[k].lit})

(* C22: the placeholders of a template are matched left to right without  *)
(* overlap (the matches and the literal characters between them partition  *)
(* the template), and the output of render_text is the literal text, in    *)
(* order and unchanged, with each placeholder replaced by what that        *)
(* placeholder alone renders to under the context.                         *)
C22_PlaceholdersIndependent ==
  DefaultCall =>
    LET toks == SingleRefs(template) IN
    /\ Concat([k \in 1..Len(toks) |-> toks[k].text]) = template
    /\ \A k \in 1..Len(toks) :
         toks[k].lit \/ (Head(toks[k].text) = LBrace /\ toks[k].text[Len(toks[k].text)] = RBrace)
    /\ result = Ok(VStr(Rebuilt(toks, [k \in 1..Len(toks) |->
                                         render_text(toks[k].text, context)])))

C22_Witness ==
  /\ DefaultCall
  /\ template = s_ph_a \o s_ph_b
  /\ result = Ok(VStr(<<"0">> \o s_ph_b))

----------------------------------------------------------------------------
BarePaths == { s_a, s_b, s_a_b }
SingleOf(p) == <<LBrace>> \o p \o <<RBrace>>
DoubleOf(p) == <<LBrace, LBrace, Space>> \o p \o <<Space, RBrace, RBrace>>

(* C23: a double-brace placeholder without '|' is resolved as the simple   *)
(* reference is: whenever p is present in the context, render_data gives   *)
(* for the leaf "{{ p }}" the text it gives for the leaf "{p}", also when  *)
(* the stored value is a string equal to p.                                *)
C23_BareDoubleBraceAsSimpleReference ==
  \A p \in BarePaths :
    (DataCall /\ data = VStr(DoubleOf(p)) /\ PresentPath(context, p))
      => result = render_data(VStr(SingleOf(p)), context)

----------------------------------------------------------------------------
(* a string that is one query placeholder in the exact written format,     *)
(* {{ path | jmespath("EXPR") }}, with no '}' and no '|' in EXPR           *)
IsExactQuery(s) ==
  /\ Len(DoubleRefs(s)) = 1
  /\ ~DoubleRefs(s)[1].lit
  /\ IsQueryBody(DoubleRefs(s)[1].body)

(* the text a query placeholder is replaced by when the evaluator is given *)
(* the expression and the data, or the exception it raises                 *)
QueryOutcome(expression, d) ==
  LET r == execute_jmespath_query(expression, d) IN
  IF r.kind = "raise" THEN r ELSE Ok(VStr(PyStr(r.val)))

(* C24: for a query placeholder in the exact format                        *)
(* {{ path | jmespath("EXPR") }} the evaluator is handed exactly EXPR, the *)
(* text between the quotes, and the value of path in the context: the leaf *)
(* renders to the text of that evaluation, or raises as it raises.         *)
C24_EvaluatorGetsWrittenExpression ==
  (/\ DataCall
   /\ data.t = "str"
   /\ IsExactQuery(data.v)
   /\ PresentPath(context, WrittenPath(DoubleRefs(data.v)[1].body))
   /\ ValueAtPath(context, WrittenPath(DoubleRefs(data.v)[1].body))
        # VStr(WrittenPath(DoubleRefs(data.v)[1].body)))
    => result = QueryOutcome(WrittenExpr(DoubleRefs(data.v)[1].body),
                             ValueAtPath(context, WrittenPath(DoubleRefs(data.v)[1].body)))

----------------------------------------------------------------------------
(* the path a match names: its body, trimmed in a double-brace placeholder *)
NamedPath(tok, double) == IF double THEN Strip(tok.body) ELSE tok.body

(* every match of toks names a path that is present in ctx with a value    *)
(* other than the path string                                              *)
AllResolved(toks, ctx, double) ==
  \A k \in 1..Len(toks) :
    toks[k].lit \/ (/\ PresentPath(ctx, NamedPath(toks[k], double))
                    /\ ValueAtPath(ctx, NamedPath(toks[k], double))
                         # VStr(NamedPath(toks[k], double)))

(* the template with each match replaced by str of the value it names *)
ValuesInserted(toks, ctx, double) ==
  Rebuilt(toks, [k \in 1..Len(toks) |->
                   IF toks[k].lit THEN <<>>
                   ELSE PyStr(ValueAtPath(ctx, NamedPath(toks[k], double)))])

(* C25: render_text and render_jmespath_template substitute in one pass:   *)
(* when every placeholder of the template resolves, the output is the      *)
(* template with each placeholder replaced by str of its value and nothing *)
(* else changed, so a value that itself holds placeholder syntax appears   *)
(* verbatim and there is one replacement per placeholder of the template.  *)
C25_SinglePass ==
  /\ (DefaultCall /\ AllResolved(SingleRefs(template), context, FALSE))
       => result = Ok(VStr(ValuesInserted(SingleRefs(template), context, FALSE)))
  /\ (/\ DataCall
      /\ data.t = "str"
      /\ HasMatch(DoubleRefs(data.v))
      /\ AllBare(data.v)
      /\ AllResolved(DoubleRefs(data.v), context, TRUE))
       => result = Ok(VStr(ValuesInserted(DoubleRefs(data.v), context, TRUE)))

(* C25 witness: "{a}{b}" rendered where a is "{b}" and b is 5 *)
C25_Witness ==
  /\ DefaultCall
  /\ template = s_ph_a \o s_ph_b
  /\ context = VDict((s_a :> VStr(s_ph_b)) @@ (s_b :> VInt(5)))
  /\ result = Ok(VStr(s_ph_b \o <<"5">>))

(* the same through a query template: "{{ a }}" where a is "{{ b }}" *)
C25_DoubleBraceVerbatim ==
  /\ DataCall
  /\ data = VStr(s_dph_a)
  /\ context = VDict((s_a :> VStr(s_dph_b)) @@ (s_b :> VInt(5)))
  /\ result = Ok(VStr(s_dph_b))

----------------------------------------------------------------------------
Jinja2Call == fn = "render_jinja2" /\ result # Pending

(* templates[n] *)
ContentOf(templates, n) ==
  templates.v[CHOOSE k \in 1..Len(templates.v) : templates.v[k][1] = n][2]

(* C26: with a templates mapping, the environment of render_jinja2 gives   *)
(* for every name n of the mapping the template built from templates[n],   *)
(* and for a name outside the mapping no template.                         *)
C26_TemplateLookupByName ==
  (Jinja2Call /\ data.t = "items" /\ data.v # <<>>) =>
    IF InTemplates(path, data)
    THEN result = Ok(Template(ContentOf(data, path)))
    ELSE result.kind = "raise" \/ result.val.t # "template"

----------------------------------------------------------------------------
(* Properties of utils.py *)

(* C27: is_placeholder(s) is true exactly when s is a string that starts   *)
(* with '{' and ends with '}': true for a well-formed single-brace or      *)
(* double-brace placeholder, false for text without braces, for a string   *)
(* that opens with '{' and does not end with '}', and for one that ends    *)
(* with '}' and does not start with '{'.                                   *)
C27_IsPlaceholderIffBraced ==
  (fn = "is_placeholder" /\ result # Pending) =>
    result = Ok(VBool(/\ data.t = "str"
                      /\ data.v # <<>>
                      /\ Head(data.v) = LBrace
                      /\ data.v[Len(data.v)] = RBrace))

(* C27 witness: "{a" has been found not to be a placeholder *)
C27_Witness ==
  /\ fn = "is_placeholder"
  /\ data = VStr(<<LBrace, "a">>)
  /\ result = Ok(VBool(FALSE))

(* a body of the form the statement is about *)
IsPlainBody(b) ==
  b = <<>> \/ (/\ Head(b) \notin {LBrace, RBrace, Space}
               /\ b[Len(b)] \notin {LBrace, RBrace, Space})

(* C28: extract_placeholder_value returns a value that is not a            *)
(* placeholder unchanged, and for every body b without a leading or        *)
(* trailing brace or blank it returns b for "{" + b + "}" and for          *)
(* "{{ " + b + " }}", query expressions included.                          *)
C28_ExtractReturnsBody ==
  (fn = "extract_placeholder_value" /\ result # Pending) =>
    /\ ~(data.t = "str" /\ data.v # <<>> /\ Head(data.v) = LBrace
                        /\ data.v[Len(data.v)] = RBrace)
         => result = Ok(data)
    /\ \A b \in Bodies :
         (IsPlainBody(b) /\ data \in { VStr(SingleOf(b)), VStr(DoubleOf(b)) })
           => result = Ok(VStr(b))

(* C28 witness: the body of a query placeholder has been extracted *)
C28_Witness ==
  /\ fn = "extract_placeholder_value"
  /\ data = VStr(s_q_a_b)
  /\ result = Ok(VStr(SubSeq(s_q_a_b, 4, Len(s_q_a_b) - 3)))

(* C29: templify.utils.get_value_from_path returns, for every context and  *)
(* path, what templify.core.get_value_from_path returns: the located       *)
(* value, or the path itself when it is not found.                         *)
C29_ResolversAgree ==
  (fn = "utils.get_value_from_path" /\ result # Pending) =>
    result = Ok(get_value_from_path(context, path))

(* C29 witness: a missing path has come back as the path *)
C29_Witness ==
  /\ fn = "utils.get_value_from_path"
  /\ path = s_a_b
  /\ context = VDict(s_a :> VInt(0))
  /\ result = Ok(VStr(s_a_b))

----------------------------------------------------------------------------
(* Properties of the shipment example *)

RECURSIVE PackageIDs(_, _)
(* the PackageID fields of the packages of shipments k, k + 1, ... in order *)
PackageIDs(shipments, k) ==
  IF k > Len(shipments) THEN <<>>
  ELSE [j \in 1..Len(shipments[k].v[s_Package].v) |->
          shipments[k].v[s_Package].v[j].v[s_PackageID]]
       \o PackageIDs(shipments, k + 1)

(* C30: create_shipments(ctx, desc, total, limit) returns ceil(total /     *)
(* limit) shipments; each holds a list of at most limit packages, each but *)
(* the last exactly limit; the package IDs read across the shipments in    *)
(* order are "Package 1" .. "Package total"; shipment i carries the        *)
(* customer context ctx-i.                                                 *)
C30_ShipmentsSplitInOrder ==
  (fn = "create_shipments" /\ result # Pending /\ data.v.packages_per_shipment >= 1) =>
    LET total == data.v.total_packages
        limit == data.v.packages_per_shipment
    IN
    /\ result.kind = "ok"
    /\ result.val.t = "list"
    /\ Len(result.val.v) * limit >= total
    /\ (Len(result.val.v) - 1) * limit < total \/ (total = 0 /\ result.val.v = <<>>)
    /\ \A i \in 1..Len(result.val.v) :
         /\ result.val.v[i].v[s_CustomerContext] = VStr(template \o <<"-">> \o IntStr(i))
         /\ result.val.v[i].v[s_Package].t = "list"
         /\ Len(result.val.v[i].v[s_Package].v) <= limit
         /\ i < Len(result.val.v) => Len(result.val.v[i].v[s_Package].v) = limit
    /\ PackageIDs(result.val.v, 1)
         = [n \in 1..total |-> VStr(s_Package \o <<Space>> \o IntStr(n))]

====
